---- MODULE Spec2Model ----
(***************************************************************************)
(* Model of the retrieval-and-confidence pipeline of the RAG application:  *)
(* the query route (src/app/api/query/route.ts) with Source Discovery,     *)
(* the Federated Retriever, the Confidence Scorer, the Response Parser     *)
(* and the Answer Orchestrator.                                            *)
(*                                                                         *)
(* Numbers.  Similarity scores are exact rationals [num, den]; the          *)
(* scorer's arithmetic is carried out exactly on them (the IEEE rounding   *)
(* of the JavaScript numbers is not modelled).                             *)
(***************************************************************************)
EXTENDS Integers, Sequences, FiniteSets, TLC

VARIABLES
    store,              \* rows of the documents table, in the table's order
    body,               \* the JSON body of the request
    pc,                 \* position of the POST handler
    req,                \* Body.parse(body): question, k and, when given, filter
    sources,            \* const sources = await getAllAvailableSources()
    discovery,          \* how the discovery query ended: none / ok / error / throw
    docsPerSource,      \* Math.max(1, Math.floor(k / sources.length))
    si,                 \* number of sources the for-loop has gone through
    allDocs,            \* the pool of the per-source results
    docs,               \* the retrieved documents
    calls,              \* the similaritySearchWithScore calls issued, in order
    lastSearch,         \* the outcome of the latest similaritySearchWithScore call
    confidenceMetrics,  \* calculateConfidenceMetrics(docs)
    parsed,             \* parseStructuredResponse(rawAnswer)
    queryLog,           \* the rows of the QueryLog table
    response,           \* the Response the handler returned
    failedAt,           \* the position at which the catch block of POST was entered
    llmCalls,           \* number of times chain.invoke was called for this request
    returned,           \* the requests served before this one: body and Response of each
    scPc,               \* Confidence Scorer on its own: idle / input / scored
    scDocs,             \* Confidence Scorer on its own: the documents given to it
    scMetrics,          \* Confidence Scorer on its own: the metrics it returned
    scRaise,            \* Confidence Scorer on its own: the latest raise of one score
    psPc,               \* Response Parser on its own: idle / input / parsed
    psText,             \* Response Parser on its own: the text given to it
    psResult,           \* Response Parser on its own: the fields it returned
    inPc,               \* ingestion: position of the POST handler of an ingest route
    inRoute,            \* ingestion: the route called: upload (text or file) / ingest (text)
    inReq,              \* ingestion: the request: its content type and its body or form
    inDocs,             \* ingestion: the documents built from the chunks
    inWrites,           \* ingestion: the vectorStore.addDocuments calls of this request
    inResponse,         \* ingestion: the Response the handler returned
    inServed,           \* ingestion: the requests served before this one
    table               \* ingestion: the documents written to the documents table

vars == <<store, body, pc, req, sources, discovery, docsPerSource, si,
          allDocs, docs, calls, lastSearch, confidenceMetrics, parsed, queryLog,
          response, failedAt, llmCalls, returned, scPc, scDocs, scMetrics, scRaise,
          psPc, psText, psResult,
          inPc, inRoute, inReq, inDocs, inWrites, inResponse, inServed, table>>

(***************************************************************************)
(* Bounds of the model.                                                    *)
(***************************************************************************)
MaxDocs == 3        \* rows in the documents table
MaxReqK == 3        \* largest k a request asks for
MaxScored == 3      \* documents given to the Confidence Scorer on its own
MaxText == 4        \* symbols of a free text given to the Response Parser on its own
MaxField == 2       \* symbols of the answer and of the reasoning of a structured text
MaxRequests == 3    \* requests served one after the other
MaxIngests == 3     \* ingestion requests served one after the other

(***************************************************************************)
(* Exact rationals.                                                        *)
(***************************************************************************)
RECURSIVE GCD(_, _)
GCD(a, b) == IF b = 0 THEN a ELSE GCD(b, a % b)

Abs(n) == IF n < 0 THEN -n ELSE n

Rat(n, d) ==
    LET g == GCD(Abs(n), Abs(d))
        s == IF d < 0 THEN -1 ELSE 1
    IN  [num |-> s * (n \div g), den |-> s * (d \div g)]

Zero == Rat(0, 1)
One == Rat(1, 1)

RAdd(a, b) == Rat(a.num * b.den + b.num * a.den, a.den * b.den)
RSub(a, b) == Rat(a.num * b.den - b.num * a.den, a.den * b.den)
RMul(a, b) == Rat(a.num * b.num, a.den * b.den)
RDiv(a, b) == Rat(a.num * b.den, a.den * b.num)
RLeq(a, b) == a.num * b.den <= b.num * a.den
RLess(a, b) == a.num * b.den < b.num * a.den
RMin(a, b) == IF RLeq(a, b) THEN a ELSE b
RMax(a, b) == IF RLeq(a, b) THEN b ELSE a

Min(a, b) == IF a <= b THEN a ELSE b
Max(a, b) == IF a >= b THEN a ELSE b

(***************************************************************************)
(* The documents table and the vector store's search.                      *)
(* A row carries its metadata and the similarity of its embedding to the   *)
(* question of the request (one question per behaviour, so one score per   *)
(* row).                                                                   *)
(***************************************************************************)
SourceNames == {"A", "B"}
StoreScores == {Rat(5, 10), Rat(9, 10)}

\* rows of the sources A and B, and a row whose source is blank
Rows ==
    [metadata : [source : SourceNames], score : StoreScores]
        \cup {[metadata |-> [source |-> " "], score |-> Rat(5, 10)]}

RECURSIVE SeqsUpTo(_, _)
SeqsUpTo(S, n) ==
    IF n = 0 THEN {<<>>}
    ELSE LET shorter == SeqsUpTo(S, n - 1)
         IN  shorter \cup {Append(s, x) : s \in {t \in shorter : Len(t) = n - 1}, x \in S}

\* the store assigns each row its id at write time
WithIds(rows) == [i \in 1..Len(rows) |-> [id |-> i] @@ rows[i]]

Stores == {WithIds(rows) : rows \in SeqsUpTo(Rows, MaxDocs)}

\* match_documents: the rows whose metadata satisfies the filter
Matches(row, f) ==
    \A key \in DOMAIN f :
        IF key = "metadata" THEN TRUE
        ELSE key \in DOMAIN row.metadata /\ row.metadata[key] = f[key]

\* faulty variant: elements with an equal key come out in reverse order
SortDescending_TiesReversed(s, key) ==
    LET n == Len(s)
        rank(i) == 1 + Cardinality({j \in 1..n :
                        \/ RLess(key[i], key[j])
                        \/ (~RLess(key[j], key[i]) /\ j > i)})
    IN  [p \in 1..n |-> s[CHOOSE i \in 1..n : rank(i) = p]]

\* A stable sort of s into non-increasing order of key (key[i] is the key of
\* s[i]): the element at i comes after every element with a greater key and
\* after the earlier elements with an equal key.
SortDescending(s, key) ==
    LET n == Len(s)
        rank(i) == 1 + Cardinality({j \in 1..n :
                        \/ RLess(key[i], key[j])
                        \/ (~RLess(key[j], key[i]) /\ j < i)})
    IN  [p \in 1..n |-> s[CHOOSE i \in 1..n : rank(i) = p]]

Slice(s, n) == SubSeq(s, 1, Min(n, Len(s)))

\* vectorStore.similaritySearchWithScore(question, n, f) when it does not throw:
\* the n best matching rows as [doc, score] pairs, best first
similaritySearchWithScore(n, f) ==
    LET matching == SelectSeq(store, LAMBDA row : Matches(row, f))
        ranked == SortDescending(matching, [i \in 1..Len(matching) |-> matching[i].score])
        top == Slice(ranked, n)
    IN  [i \in 1..Len(top) |->
            [doc |-> [id |-> top[i].id, metadata |-> top[i].metadata],
             score |-> top[i].score]]

(***************************************************************************)
(* Source Discovery: getAllAvailableSources.                               *)
(***************************************************************************)
FallbackSources == <<"docs-langchain", "docs-fitur-a", "docs-rag">>

BlankStrings == {"", " "}
Trim(str) == IF str \in BlankStrings THEN "" ELSE str

\* [...new Set(s)]: the first occurrence of each element, in order
RECURSIVE Unique(_)
Unique(s) ==
    IF s = <<>> THEN <<>>
    ELSE LET front == Unique(SubSeq(s, 1, Len(s) - 1))
             last == s[Len(s)]
         IN  IF \E i \in 1..Len(front) : front[i] = last THEN front
             ELSE Append(front, last)

\* the ways the supabase query of getAllAvailableSources can end
DiscoveryOutcomes == {"ok", "error", "throw"}

\* the rows the query selects: metadata->>source of every row where it is not null
SourceRows ==
    LET withSource == SelectSeq(store, LAMBDA row : "source" \in DOMAIN row.metadata)
    IN  [i \in 1..Len(withSource) |-> withSource[i].metadata.source]

\* faulty variant: the error object of the query is not looked at
getAllAvailableSources_ErrorIgnored(outcome) ==
    IF outcome = "throw" THEN FallbackSources
    ELSE LET uniqueSources ==
                 Unique(SelectSeq(SourceRows, LAMBDA src : src # "" /\ Trim(src) # ""))
         IN  IF Len(uniqueSources) > 0 THEN uniqueSources ELSE FallbackSources

\* faulty variant: blank sources are not filtered out
getAllAvailableSources_BlankKept(outcome) ==
    IF outcome = "error" THEN FallbackSources
    ELSE IF outcome = "throw" THEN FallbackSources
    ELSE LET uniqueSources == Unique(SourceRows)
         IN  IF Len(uniqueSources) > 0 THEN uniqueSources ELSE FallbackSources

getAllAvailableSources(outcome) ==
    IF outcome = "error" THEN FallbackSources
    ELSE IF outcome = "throw" THEN FallbackSources
    ELSE LET uniqueSources ==
                 Unique(SelectSeq(SourceRows, LAMBDA src : src # "" /\ Trim(src) # ""))
         IN  IF Len(uniqueSources) > 0 THEN uniqueSources ELSE FallbackSources

(***************************************************************************)
(* Confidence Scorer: calculateConfidenceMetrics.                          *)
(***************************************************************************)
\* d.similarityScore || 0
ScoreOrZero(d) ==
    IF "similarityScore" \in DOMAIN d THEN d.similarityScore ELSE Zero

RECURSIVE RSum(_)
RSum(s) == IF s = <<>> THEN Zero ELSE RAdd(s[1], RSum(Tail(s)))

RECURSIVE RMaxOf(_)
RMaxOf(s) == IF Len(s) = 1 THEN s[1] ELSE RMax(s[1], RMaxOf(Tail(s)))

RECURSIVE RMinOf(_)
RMinOf(s) == IF Len(s) = 1 THEN s[1] ELSE RMin(s[1], RMinOf(Tail(s)))

\* faulty variant: the scores are not filtered
PositiveScores_Unfiltered(d) == [i \in 1..Len(d) |-> ScoreOrZero(d[i])]

\* faulty variant: the scores are filtered by s > 0.5
PositiveScores_AboveHalf(d) ==
    SelectSeq([i \in 1..Len(d) |-> ScoreOrZero(d[i])], LAMBDA sc : RLess(Rat(5, 10), sc))

\* line 66: docs.map(d => d.similarityScore || 0).filter(s => s > 0)
PositiveScores(d) ==
    SelectSeq([i \in 1..Len(d) |-> ScoreOrZero(d[i])], LAMBDA sc : RLess(Zero, sc))

\* faulty variant: the average is not kept at or below 1 after the division by 0.8
NormalizedAvg_Unclamped(avgSimilarity) == RDiv(avgSimilarity, Rat(8, 10))

\* line 88: Math.min(avgSimilarity / 0.8, 1)
NormalizedAvg(avgSimilarity) == RMin(RDiv(avgSimilarity, Rat(8, 10)), One)

\* faulty variant: the consistency factor is not kept at or above 0
ConsistencyFactor_Unclamped(variance) == RSub(One, RMul(variance, Rat(10, 1)))

\* line 89: Math.max(0, 1 - (variance * 10))
ConsistencyFactor(variance) == RMax(Zero, RSub(One, RMul(variance, Rat(10, 1))))

\* line 90: Math.min(docs.length / 3, 1)
DocumentFactor(count) == RMin(Rat(count, 3), One)

calculateConfidenceMetrics(d) ==
    IF Len(d) = 0
    THEN [avgSimilarity |-> Zero, maxSimilarity |-> Zero, minSimilarity |-> Zero,
          scoreVariance |-> Zero, documentCount |-> 0, overallConfidence |-> Zero]
    ELSE
    LET scores == PositiveScores(d)
    IN  IF Len(scores) = 0
        THEN [avgSimilarity |-> Zero, maxSimilarity |-> Zero, minSimilarity |-> Zero,
              scoreVariance |-> Zero, documentCount |-> Len(d),
              overallConfidence |-> Zero]
        ELSE
        LET n == Rat(Len(scores), 1)
            avgSimilarity == RDiv(RSum(scores), n)
            squares == [i \in 1..Len(scores) |->
                           RMul(RSub(scores[i], avgSimilarity),
                                RSub(scores[i], avgSimilarity))]
            variance == RDiv(RSum(squares), n)
            overallConfidence ==
                RAdd(RAdd(RMul(NormalizedAvg(avgSimilarity), Rat(5, 10)),
                          RMul(ConsistencyFactor(variance), Rat(3, 10))),
                     RMul(DocumentFactor(Len(d)), Rat(2, 10)))
        IN  [avgSimilarity |-> avgSimilarity,
             maxSimilarity |-> RMaxOf(scores),
             minSimilarity |-> RMinOf(scores),
             scoreVariance |-> variance,
             documentCount |-> Len(d),
             overallConfidence |-> RMin(overallConfidence, One)]

(***************************************************************************)
(* Response Parser: parseStructuredResponse.                               *)
(* A text is a sequence of symbols: the three labels, the newline, the     *)
(* space, the minus sign, decimal digits and the letters of Letters.       *)
(***************************************************************************)
Labels == {"ANSWER:", "CONFIDENCE:", "REASONING:"}
Digits == {"0", "1", "2", "3", "4", "5", "6", "7", "8", "9"}
Letters == {"X", "Y"}
Whitespace == {" ", "\n"}

DigitValue(c) ==
    CASE c = "0" -> 0 [] c = "1" -> 1 [] c = "2" -> 2 [] c = "3" -> 3 [] c = "4" -> 4
      [] c = "5" -> 5 [] c = "6" -> 6 [] c = "7" -> 7 [] c = "8" -> 8 [] c = "9" -> 9

\* String.prototype.trim
RECURSIVE TrimStart(_)
TrimStart(t) ==
    IF t # <<>> /\ t[1] \in Whitespace THEN TrimStart(Tail(t)) ELSE t

RECURSIVE TrimEnd(_)
TrimEnd(t) ==
    IF t # <<>> /\ t[Len(t)] \in Whitespace THEN TrimEnd(SubSeq(t, 1, Len(t) - 1)) ELSE t

TrimText(t) == TrimEnd(TrimStart(t))

\* response.split('\n')
RECURSIVE SplitLines(_)
SplitLines(t) ==
    IF \A i \in 1..Len(t) : t[i] # "\n" THEN <<t>>
    ELSE LET at == CHOOSE i \in 1..Len(t) :
                       t[i] = "\n" /\ \A j \in 1..(i - 1) : t[j] # "\n"
         IN  <<SubSeq(t, 1, at - 1)>> \o SplitLines(SubSeq(t, at + 1, Len(t)))

\* line.startsWith(label)
StartsWith(line, label) == line # <<>> /\ line[1] = label

\* line.replace(label, ''): the first occurrence of the label is removed
RemoveFirst(line, label) ==
    IF \A i \in 1..Len(line) : line[i] # label THEN line
    ELSE LET at == CHOOSE i \in 1..Len(line) :
                       line[i] = label /\ \A j \in 1..(i - 1) : line[j] # label
         IN  SubSeq(line, 1, at - 1) \o SubSeq(line, at + 1, Len(line))

\* the value of the longest prefix of decimal digits of t, read after acc
RECURSIVE DigitsValue(_, _)
DigitsValue(t, acc) ==
    IF t # <<>> /\ t[1] \in Digits
    THEN DigitsValue(Tail(t), 10 * acc + DigitValue(t[1]))
    ELSE acc

\* parseInt(str) || 0: an optional sign and the leading digits; 0 when there are none
ParseIntOrZero(str) ==
    LET t == TrimStart(str)
        negative == t # <<>> /\ t[1] = "-"
        digits == IF negative THEN Tail(t) ELSE t
        value == DigitsValue(digits, 0)
    IN  IF negative THEN -value ELSE value

\* the body of the for-loop over the lines, applied to the line `line`
ParseLine(acc, line) ==
    IF StartsWith(line, "ANSWER:")
    THEN [acc EXCEPT !.currentSection = "answer",
                     !.answer = TrimText(RemoveFirst(line, "ANSWER:"))]
    ELSE IF StartsWith(line, "CONFIDENCE:")
    THEN [acc EXCEPT !.currentSection = "confidence",
                     !.confidence = ParseIntOrZero(TrimText(RemoveFirst(line, "CONFIDENCE:")))]
    ELSE IF StartsWith(line, "REASONING:")
    THEN [acc EXCEPT !.currentSection = "reasoning",
                     !.reasoning = TrimText(RemoveFirst(line, "REASONING:"))]
    ELSE IF line # <<>> /\ acc.currentSection # ""
    THEN IF acc.currentSection = "answer"
         THEN [acc EXCEPT !.answer =
                   @ \o (IF @ # <<>> THEN <<" ">> ELSE <<>>) \o line]
         ELSE IF acc.currentSection = "reasoning"
         THEN [acc EXCEPT !.reasoning =
                   @ \o (IF @ # <<>> THEN <<" ">> ELSE <<>>) \o line]
         ELSE acc
    ELSE acc

RECURSIVE ParseLines(_, _)
ParseLines(acc, lines) ==
    IF lines = <<>> THEN acc
    ELSE ParseLines(ParseLine(acc, TrimText(lines[1])), Tail(lines))

DefaultReasoning == <<"Answer based on analysis of available documents">>

\* faulty variant: the fields are returned as the loop left them, with no fallback
parseStructuredResponse_NoFallback(text) ==
    LET fields == ParseLines([answer |-> <<>>, confidence |-> 0, reasoning |-> <<>>,
                              currentSection |-> ""],
                             SplitLines(text))
    IN  [answer |-> fields.answer, confidence |-> fields.confidence,
         reasoning |-> fields.reasoning]

parseStructuredResponse(text) ==
    LET fields == ParseLines([answer |-> <<>>, confidence |-> 0, reasoning |-> <<>>,
                              currentSection |-> ""],
                             SplitLines(text))
    IN  IF fields.answer = <<>> /\ fields.confidence = 0 /\ fields.reasoning = <<>>
        THEN [answer |-> TrimText(text), confidence |-> 5,
              reasoning |-> DefaultReasoning]
        ELSE [answer |-> fields.answer, confidence |-> fields.confidence,
              reasoning |-> fields.reasoning]

(***************************************************************************)
(* The request body and its schema (Body).                                 *)
(***************************************************************************)
KMin == 1
KMax == 20
DefaultK == 4

Questions == {"", "q"}
EmptyFilter == [key \in {} |-> ""]
UserFilters == {EmptyFilter, [source |-> "A"]}

\* the bodies with a k, with and without a filter, and the body of a question alone
Bodies ==
    LET withQuestion == {[question |-> q] : q \in Questions}
        withK == {b @@ [k |-> n] : b \in withQuestion, n \in (0..MaxReqK) \cup {KMax + 1}}
    IN  withQuestion \cup withK \cup {b @@ [filter |-> f] : b \in withK, f \in UserFilters}

\* Body.parse does not throw
BodyValid(b) ==
    /\ b.question # ""
    /\ "k" \in DOMAIN b => (b.k >= KMin /\ b.k <= KMax)

\* Body.parse(b) for a valid b: the default of k applied
BodyParse(b) ==
    [question |-> b.question, k |-> IF "k" \in DOMAIN b THEN b.k ELSE DefaultK]
        @@ (IF "filter" \in DOMAIN b THEN [filter |-> b.filter] ELSE EmptyFilter)

\* filter && Object.keys(filter).length > 0
HasUserFilter(r) == "filter" \in DOMAIN r /\ DOMAIN r.filter # {}

(***************************************************************************)
(* The POST handler of the query route, one action per awaited call.       *)
(***************************************************************************)
NoSearch == [outcome |-> "none", result |-> <<>>]
NoMetrics == calculateConfidenceMetrics(<<>>)
NoParsed == [answer |-> <<>>, confidence |-> 0, reasoning |-> <<>>]
NoResponse == [status |-> 0]
NoRaise == [at |-> 0]

scorerVars == <<scPc, scDocs, scMetrics, scRaise>>
parserVars == <<psPc, psText, psResult>>
ingestVars == <<inPc, inRoute, inReq, inDocs, inWrites, inResponse, inServed, table>>

HandlerIdle ==
    /\ req = [question |-> "", k |-> 0]
    /\ sources = <<>>
    /\ discovery = "none"
    /\ docsPerSource = 0
    /\ si = 0
    /\ allDocs = <<>>
    /\ docs = <<>>
    /\ calls = <<>>
    /\ lastSearch = NoSearch
    /\ confidenceMetrics = NoMetrics
    /\ parsed = NoParsed
    /\ queryLog = <<>>
    /\ response = NoResponse
    /\ failedAt = ""
    /\ llmCalls = 0
    /\ returned = <<>>

HandlerStart ==
    /\ pc = "start"
    /\ HandlerIdle

ScorerIdle ==
    /\ scPc = "idle"
    /\ scDocs = <<>>
    /\ scMetrics = NoMetrics
    /\ scRaise = NoRaise

ParserIdle ==
    /\ psPc = "idle"
    /\ psText = <<>>
    /\ psResult = NoParsed

IngestIdle ==
    /\ inPc = "idle"
    /\ inRoute = "none"
    /\ inReq = [contentType |-> "none"]
    /\ inDocs = <<>>
    /\ inWrites = <<>>
    /\ inResponse = NoResponse
    /\ inServed = <<>>
    /\ table = <<>>

Init ==
    /\ store \in Stores
    /\ body \in Bodies
    /\ HandlerStart
    /\ ScorerIdle
    /\ ParserIdle
    /\ IngestIdle

\* lines 302-317: the catch block of POST
FailureResponse == [ok |-> FALSE, status |-> 500, error |-> "Internal server error"]

\* faulty variant: the error leaves the handler and no Response is built
Fail_NoResponse ==
    /\ pc' = "failed"
    /\ failedAt' = pc
    /\ UNCHANGED response

Fail ==
    /\ pc' = "failed"
    /\ failedAt' = pc
    /\ response' = FailureResponse

\* docsWithScores.map(([doc, score]) => ({ ...doc, similarityScore: score }))
WithScores(result) ==
    [i \in 1..Len(result) |-> [similarityScore |-> result[i].score] @@ result[i].doc]

\* sourceDocs.map(([doc, score]) => ({ ...doc, similarityScore: score, source: source }))
WithScoresFrom(result, source) ==
    [i \in 1..Len(result) |->
        [similarityScore |-> result[i].score, source |-> source] @@ result[i].doc]

\* faulty variant: the pool is left in its order of discovery
SortBySimilarity_Unsorted(pool) == pool

\* allDocs.sort((a, b) => (b.similarityScore || 0) - (a.similarityScore || 0))
SortBySimilarity(pool) ==
    SortDescending(pool, [i \in 1..Len(pool) |-> ScoreOrZero(pool[i])])

\* faulty variant: the sorted pool is not cut
TopK_Uncut(pool, n) == SortBySimilarity(pool)

\* faulty variant: the pool is cut before it is sorted
TopK_CutFirst(pool, n) == SortBySimilarity(Slice(pool, n))

\* lines 232-233: the pool sorted and cut to its first n documents
TopK(pool, n) == Slice(SortBySimilarity(pool), n)

\* faulty variant: the per-source count is rounded up
DocsPerSource_RoundedUp(n, sourceCount) == Max(1, (n + sourceCount - 1) \div sourceCount)

\* line 198
DocsPerSource(n, sourceCount) == Max(1, n \div sourceCount)

\* faulty variant: the caller's filter is not handed to the store
FilteredCall_NoFilter == [k |-> req.k, filter |-> EmptyFilter]

\* the arguments of the three calls of vectorStore.similaritySearchWithScore
FilteredCall == [k |-> req.k, filter |-> req.filter]
\* faulty variant: every source is asked for k documents
SourceCall_AskK(source) == [k |-> req.k, filter |-> [source |-> source]]
SourceCall(source) == [k |-> docsPerSource, filter |-> [source |-> source]]
BroadFilter == [metadata |-> "$exists"]
BroadCall == [k |-> req.k, filter |-> BroadFilter]

Returned(call) ==
    [outcome |-> "returned", result |-> similaritySearchWithScore(call.k, call.filter)]
Threw == [outcome |-> "threw", result |-> <<>>]

\* lines 239-252: the retrieved documents are scored and the chain is invoked
Retrieved(d) ==
    /\ docs' = d
    /\ confidenceMetrics' = calculateConfidenceMetrics(d)
    /\ pc' = "generate"
    /\ UNCHANGED <<response, failedAt>>

\* line 175, then the branch of line 180 up to its first awaited call
ParseBody ==
    /\ pc = "start"
    /\ IF BodyValid(body)
       THEN /\ req' = BodyParse(body)
            /\ pc' = IF HasUserFilter(req') THEN "filtered" ELSE "discover"
            /\ UNCHANGED <<response, failedAt>>
       ELSE /\ Fail
            /\ UNCHANGED req
    /\ UNCHANGED <<llmCalls, store, body, sources, discovery, docsPerSource, si, allDocs, docs,
                   calls, lastSearch, confidenceMetrics, parsed, queryLog>>
    /\ UNCHANGED <<returned, scorerVars, parserVars, ingestVars>>

\* lines 183-188: the one search with the caller's filter
FilteredSearch ==
    /\ pc = "filtered"
    /\ calls' = Append(calls, FilteredCall)
    /\ \/ /\ lastSearch' = Returned(FilteredCall)
          /\ Retrieved(WithScores(lastSearch'.result))
       \/ /\ lastSearch' = Threw
          /\ Fail
          /\ UNCHANGED <<docs, confidenceMetrics>>
    /\ UNCHANGED <<llmCalls, store, body, req, sources, discovery, docsPerSource, si, allDocs,
                   parsed, queryLog>>
    /\ UNCHANGED <<returned, scorerVars, parserVars, ingestVars>>

\* faulty variant: an error of the discovery query reaches the catch block of POST
Discover_Rethrow ==
    /\ pc = "discover"
    /\ \E outcome \in DiscoveryOutcomes :
          /\ discovery' = outcome
          /\ IF outcome = "throw"
             THEN /\ Fail
                  /\ UNCHANGED <<sources, docsPerSource>>
             ELSE /\ sources' = getAllAvailableSources(outcome)
                  /\ docsPerSource' = DocsPerSource(req.k, Len(sources'))
                  /\ pc' = "source"
                  /\ UNCHANGED <<response, failedAt>>
    /\ allDocs' = <<>>
    /\ si' = 0
    /\ UNCHANGED <<llmCalls, store, body, req, docs, calls, lastSearch, confidenceMetrics,
                   parsed, queryLog>>
    /\ UNCHANGED <<returned, scorerVars, parserVars, ingestVars>>

\* lines 196-198: source discovery and the per-source count
Discover ==
    /\ pc = "discover"
    /\ \E outcome \in DiscoveryOutcomes :
          /\ discovery' = outcome
          /\ sources' = getAllAvailableSources(outcome)
    /\ docsPerSource' = DocsPerSource(req.k, Len(sources'))
    /\ allDocs' = <<>>
    /\ si' = 0
    /\ pc' = "source"
    /\ UNCHANGED <<llmCalls, store, body, req, docs, calls, lastSearch, confidenceMetrics,
                   parsed, queryLog, response, failedAt>>
    /\ UNCHANGED <<returned, scorerVars, parserVars, ingestVars>>

\* lines 216-236, up to the next awaited call: the broad search when the pool is
\* empty, else the pool sorted and cut
AfterLoop(pool) ==
    IF Len(pool) = 0
    THEN /\ pc' = "broad"
         /\ UNCHANGED <<docs, confidenceMetrics, response, failedAt>>
    ELSE Retrieved(TopK(pool, req.k))

\* the end of one turn of the loop of line 200, the pool being `pool`
EndOfTurn(pool) ==
    /\ allDocs' = pool
    /\ si' = si + 1
    /\ IF si' < Len(sources)
       THEN UNCHANGED <<pc, docs, confidenceMetrics, response, failedAt>>
       ELSE AfterLoop(pool)

\* lines 202-210: the search of one source returned
SourceReturned(source) ==
    /\ lastSearch' = Returned(SourceCall(source))
    /\ EndOfTurn(allDocs \o WithScoresFrom(lastSearch'.result, source))

\* faulty variant: the error of one source reaches the catch block of POST
SourceThrew_Rethrow ==
    /\ lastSearch' = Threw
    /\ Fail
    /\ UNCHANGED <<allDocs, si, docs, confidenceMetrics>>

\* lines 211-213: the search of one source threw
SourceThrew ==
    /\ lastSearch' = Threw
    /\ EndOfTurn(allDocs)

\* lines 200-214: one turn of the loop over the sources
SourceSearch ==
    /\ pc = "source"
    /\ si < Len(sources)
    /\ calls' = Append(calls, SourceCall(sources[si + 1]))
    /\ \/ SourceReturned(sources[si + 1])
       \/ SourceThrew
    /\ UNCHANGED <<llmCalls, store, body, req, sources, discovery, docsPerSource, parsed,
                   queryLog>>
    /\ UNCHANGED <<returned, scorerVars, parserVars, ingestVars>>

\* lines 220-225: the broad search returned
BroadReturned ==
    /\ lastSearch' = Returned(BroadCall)
    /\ Retrieved(WithScores(lastSearch'.result))

\* faulty variant: the error of the broad search reaches the catch block of POST
BroadThrew_Rethrow ==
    /\ lastSearch' = Threw
    /\ Fail
    /\ UNCHANGED <<docs, confidenceMetrics>>

\* lines 226-229: the broad search threw
BroadThrew ==
    /\ lastSearch' = Threw
    /\ Retrieved(<<>>)

\* lines 218-229: the broad search over every row that has metadata
BroadSearch ==
    /\ pc = "broad"
    /\ calls' = Append(calls, BroadCall)
    /\ \/ BroadReturned
       \/ BroadThrew
    /\ UNCHANGED <<llmCalls, store, body, req, sources, discovery, docsPerSource, si, allDocs,
                   parsed, queryLog>>
    /\ UNCHANGED <<returned, scorerVars, parserVars, ingestVars>>

\* what the language model may answer
RawAnswers ==
    { <<"ANSWER:", " ", "X", "\n", "CONFIDENCE:", " ", "7", "\n", "REASONING:", " ", "Y">>,
      <<"X", " ", "Y">> }

\* faulty variant: a failed call of the chain is tried once more
Generate_Retry ==
    /\ pc = "generate"
    /\ llmCalls' = llmCalls + 1
    /\ \/ \E rawAnswer \in RawAnswers :
             /\ parsed' = parseStructuredResponse(rawAnswer)
             /\ pc' = "log"
             /\ UNCHANGED <<response, failedAt>>
       \/ /\ IF llmCalls = 0 THEN UNCHANGED <<pc, response, failedAt>> ELSE Fail
          /\ UNCHANGED parsed
    /\ UNCHANGED <<store, body, req, sources, discovery, docsPerSource, si, allDocs,
                   docs, calls, lastSearch, confidenceMetrics, queryLog>>
    /\ UNCHANGED <<returned, scorerVars, parserVars, ingestVars>>

\* lines 249-255: the chain is invoked and its output parsed
Generate ==
    /\ pc = "generate"
    /\ llmCalls' = llmCalls + 1
    /\ \/ \E rawAnswer \in RawAnswers :
             /\ parsed' = parseStructuredResponse(rawAnswer)
             /\ pc' = "log"
             /\ UNCHANGED <<response, failedAt>>
       \/ /\ Fail
          /\ UNCHANGED parsed
    /\ UNCHANGED <<store, body, req, sources, discovery, docsPerSource, si, allDocs,
                   docs, calls, lastSearch, confidenceMetrics, queryLog>>
    /\ UNCHANGED <<returned, scorerVars, parserVars, ingestVars>>

\* Math.round(x * 10)
RoundTimes10(x) == (20 * x.num + x.den) \div (2 * x.den)

\* lines 265-301 (the scores of the model have one decimal, so rounding them to
\* three decimals, line 283, leaves them as they are)
SuccessResponse ==
    [ok |-> TRUE, status |-> 200,
     answer |-> parsed.answer,
     confidence |-> [llmConfidence |-> parsed.confidence,
                     overallConfidence |-> RoundTimes10(confidenceMetrics.overallConfidence)],
     reasoning |-> parsed.reasoning,
     docsFound |-> Len(docs),
     sources |-> [i \in 1..Len(docs) |->
                     [id |-> docs[i].id, metadata |-> docs[i].metadata,
                      similarityScore |-> ScoreOrZero(docs[i])]]]

\* faulty variant: the response is built without waiting for the log row
LogAndRespond_RespondFirst ==
    /\ pc = "log"
    /\ pc' = "done"
    /\ response' = SuccessResponse
    /\ UNCHANGED <<failedAt, queryLog>>
    /\ UNCHANGED <<llmCalls, store, body, req, sources, discovery, docsPerSource, si, allDocs,
                   docs, calls, lastSearch, confidenceMetrics, parsed>>
    /\ UNCHANGED <<returned, scorerVars, parserVars, ingestVars>>

\* faulty variant: the log row is written also when the write is reported as failed
LogAndRespond_LogThenFail ==
    /\ pc = "log"
    /\ queryLog' = Append(queryLog, [question |-> req.question, answer |-> parsed.answer])
    /\ \/ /\ pc' = "done"
          /\ response' = SuccessResponse
          /\ UNCHANGED failedAt
       \/ Fail
    /\ UNCHANGED <<llmCalls, store, body, req, sources, discovery, docsPerSource, si, allDocs,
                   docs, calls, lastSearch, confidenceMetrics, parsed>>
    /\ UNCHANGED <<returned, scorerVars, parserVars, ingestVars>>

\* lines 258-301: the log row is written, then the response is built
LogAndRespond ==
    /\ pc = "log"
    /\ \/ /\ queryLog' = Append(queryLog, [question |-> req.question,
                                           answer |-> parsed.answer])
          /\ pc' = "done"
          /\ response' = SuccessResponse
          /\ UNCHANGED failedAt
       \/ /\ Fail
          /\ UNCHANGED queryLog
    /\ UNCHANGED <<llmCalls, store, body, req, sources, discovery, docsPerSource, si, allDocs,
                   docs, calls, lastSearch, confidenceMetrics, parsed>>
    /\ UNCHANGED <<returned, scorerVars, parserVars, ingestVars>>

Next ==
    \/ ParseBody
    \/ FilteredSearch
    \/ Discover
    \/ SourceSearch
    \/ BroadSearch
    \/ Generate
    \/ LogAndRespond

Spec == Init /\ [][Next]_vars

(***************************************************************************)
(* Requests served one after the other over one documents table and one    *)
(* QueryLog table: a request with no question, a request with a question   *)
(* alone and a request with a filter.                                      *)
(***************************************************************************)
LogStore ==
    WithIds(<<[metadata |-> [source |-> "A"], score |-> Rat(9, 10)]>>)

LogBodies ==
    {[question |-> ""], [question |-> "q"],
     [question |-> "r", k |-> 1, filter |-> [source |-> "A"]]}

InitLog ==
    /\ store = LogStore
    /\ body \in LogBodies
    /\ HandlerStart
    /\ ScorerIdle
    /\ ParserIdle
    /\ IngestIdle

\* POST is called again once it has returned: a new invocation with its own
\* locals, over the same tables
NewRequest ==
    /\ pc \in {"done", "failed"}
    /\ Len(returned) + 1 < MaxRequests
    /\ returned' = Append(returned, [body |-> body, response |-> response])
    /\ body' \in LogBodies
    /\ pc' = "start"
    /\ req' = [question |-> "", k |-> 0]
    /\ sources' = <<>>
    /\ discovery' = "none"
    /\ docsPerSource' = 0
    /\ si' = 0
    /\ allDocs' = <<>>
    /\ docs' = <<>>
    /\ calls' = <<>>
    /\ lastSearch' = NoSearch
    /\ confidenceMetrics' = NoMetrics
    /\ parsed' = NoParsed
    /\ response' = NoResponse
    /\ failedAt' = ""
    /\ llmCalls' = 0
    /\ UNCHANGED <<store, queryLog>>
    /\ UNCHANGED <<scorerVars, parserVars, ingestVars>>

NextLog ==
    \/ Next
    \/ NewRequest

SpecLog == InitLog /\ [][NextLog]_vars

(***************************************************************************)
(* The scenario of two sources of two documents each, asked with k = 3 and *)
(* no filter.                                                              *)
(***************************************************************************)
ScenarioScores == {Rat(3, 10), Rat(5, 10), Rat(9, 10)}

TwoSourceStores ==
    {WithIds(rows) :
        rows \in {r \in [1..4 -> [metadata : [source : SourceNames], score : ScenarioScores]] :
                    \A src \in SourceNames :
                        Cardinality({i \in 1..4 : r[i].metadata.source = src}) = 2}}

InitTwoSources ==
    /\ store \in TwoSourceStores
    /\ body = [question |-> "q", k |-> 3]
    /\ HandlerStart
    /\ ScorerIdle
    /\ ParserIdle
    /\ IngestIdle

NextFederated ==
    \/ ParseBody
    \/ Discover
    \/ SourceSearch
    \/ BroadSearch
    \/ Generate
    \/ LogAndRespond

SpecTwoSources == InitTwoSources /\ [][NextFederated]_vars

(***************************************************************************)
(* The Confidence Scorer on its own: it is given any short sequence of     *)
(* documents, with scores below, at and above zero, above 0.8 and missing, *)
(* and is run again each time one score is raised.                         *)
(***************************************************************************)
ScoreValues == {Rat(-1, 1), Zero, Rat(1, 10), Rat(5, 10), Rat(9, 10), Rat(12, 10)}

ScorerDocs ==
    {[pageContent |-> "c"]}
        \cup {[pageContent |-> "c", similarityScore |-> v] : v \in ScoreValues}

InitScore ==
    /\ store = <<>>
    /\ body = [question |-> "q"]
    /\ pc = "idle"
    /\ HandlerIdle
    /\ scPc = "input"
    /\ scDocs \in SeqsUpTo(ScorerDocs, MaxScored)
    /\ scMetrics = NoMetrics
    /\ scRaise = NoRaise
    /\ ParserIdle
    /\ IngestIdle

handlerVars == <<store, body, pc, req, sources, discovery, docsPerSource, si, allDocs,
                 docs, calls, lastSearch, confidenceMetrics, parsed, queryLog,
                 response, failedAt, llmCalls, returned>>

\* calculateConfidenceMetrics(scDocs)
Score ==
    /\ scPc = "input"
    /\ scMetrics' = calculateConfidenceMetrics(scDocs)
    /\ scPc' = "scored"
    /\ UNCHANGED <<scDocs, scRaise>>
    /\ UNCHANGED <<handlerVars, parserVars, ingestVars>>

\* one score is raised, the others stay, and the scorer is run on the result
RaiseScore ==
    /\ scPc = "scored"
    /\ \E i \in 1..Len(scDocs), v \in ScoreValues :
          /\ "similarityScore" \in DOMAIN scDocs[i]
          /\ RLess(scDocs[i].similarityScore, v)
          /\ scDocs' = [scDocs EXCEPT ![i].similarityScore = v]
          /\ scRaise' = [at |-> i, from |-> scDocs[i].similarityScore,
                         before |-> scMetrics]
    /\ scMetrics' = calculateConfidenceMetrics(scDocs')
    /\ UNCHANGED scPc
    /\ UNCHANGED <<handlerVars, parserVars, ingestVars>>

NextScore ==
    \/ Score
    \/ RaiseScore

SpecScore == InitScore /\ [][NextScore]_vars

(***************************************************************************)
(* The Response Parser on its own: it is given any short text over the     *)
(* labels, the newline, the space, the minus sign, a digit and a letter,   *)
(* or a text of the three labelled lines the prompt asks the model for.    *)
(***************************************************************************)
TextSymbols == Labels \cup {"\n", " ", "-", "1", "X"}

\* the answers and reasonings of the structured texts: one line, no label
FieldSymbols == Letters \cup {" "}
Fields == SeqsUpTo(FieldSymbols, MaxField)

\* the confidences of the structured texts
ConfidenceValues == {-3, 0, 7, 15}

DigitSymbol(n) ==
    CASE n = 0 -> "0" [] n = 1 -> "1" [] n = 2 -> "2" [] n = 3 -> "3" [] n = 4 -> "4"
      [] n = 5 -> "5" [] n = 6 -> "6" [] n = 7 -> "7" [] n = 8 -> "8" [] n = 9 -> "9"

\* the decimal digits of the natural number n
RECURSIVE DecimalDigits(_)
DecimalDigits(n) ==
    IF n < 10 THEN <<DigitSymbol(n)>>
    ELSE DecimalDigits(n \div 10) \o <<DigitSymbol(n % 10)>>

\* the integer c written in decimal
Decimal(c) == IF c < 0 THEN <<"-">> \o DecimalDigits(-c) ELSE DecimalDigits(c)

\* lines 26-28 of the prompt: "ANSWER: X", "CONFIDENCE: c", "REASONING: Y"
StructuredText(X, c, Y) ==
    <<"ANSWER:", " ">> \o X \o <<"\n", "CONFIDENCE:", " ">> \o Decimal(c)
        \o <<"\n", "REASONING:", " ">> \o Y

StructuredTexts ==
    {StructuredText(X, c, Y) : X \in Fields, c \in ConfidenceValues, Y \in Fields}

InitParse ==
    /\ store = <<>>
    /\ body = [question |-> "q"]
    /\ pc = "idle"
    /\ HandlerIdle
    /\ ScorerIdle
    /\ psPc = "input"
    /\ psText \in SeqsUpTo(TextSymbols, MaxText) \cup StructuredTexts
    /\ psResult = NoParsed
    /\ IngestIdle

\* parseStructuredResponse(psText)
Parse ==
    /\ psPc = "input"
    /\ psResult' = parseStructuredResponse(psText)
    /\ psPc' = "parsed"
    /\ UNCHANGED psText
    /\ UNCHANGED <<handlerVars, scorerVars, ingestVars>>

NextParse == Parse

SpecParse == InitParse /\ [][NextParse]_vars

(***************************************************************************)
(* Ingestion: the POST handlers of the two ingest routes, the upload route *)
(* (src/unnamed/part_002: a JSON text body or a multipart file form) and   *)
(* the ingest route (src/app/api/ingest/route.ts: a JSON text body).       *)
(*                                                                         *)
(* A JavaScript number is [nan, n]; a JSON value of a body is a number or  *)
(* a string; a text is a sequence of characters.  The text splitter is the *)
(* library's: it is modelled by windows of chunkSize characters that       *)
(* overlap by chunkOverlap, which keeps what the handlers rely on (the     *)
(* chunks are a function of text, chunkSize and chunkOverlap, and an empty *)
(* text has no chunk).                                                     *)
(***************************************************************************)
DefaultChunkSize == 800
DefaultChunkOverlap == 100

Number(n) == [nan |-> FALSE, n |-> n]
NaN == [nan |-> TRUE, n |-> 0]

\* a >= b on numbers: false when one of them is NaN
NumGeq(a, b) == ~a.nan /\ ~b.nan /\ a.n >= b.n

\* a number is truthy when it is neither 0 nor NaN
Truthy(a) == ~a.nan /\ a.n # 0

\* parseInt(str): an optional sign and the leading digits; NaN when there are none
ParseInt(str) ==
    LET t == TrimStart(str)
        negative == t # <<>> /\ t[1] = "-"
        digits == IF negative THEN Tail(t) ELSE t
    IN  IF digits = <<>> \/ digits[1] \notin Digits THEN NaN
        ELSE Number(IF negative THEN -DigitsValue(digits, 0) ELSE DigitsValue(digits, 0))

JNumber(n) == [type |-> "number", n |-> n]
JString == [type |-> "string", n |-> 0]

IngestText == <<"a", "b", "c">>
Now == "now"

\* the metadata a caller may send: none, a source, and a source with its own
\* chunk and chunkCount
CallerMetadata ==
    {[key \in {} |-> ""], [source |-> "S"], [source |-> "S", chunk |-> 7, chunkCount |-> 9]}

\* the JSON bodies: each field given or left out
JsonBodies ==
    LET none == [key \in {} |-> ""]
        texts == {none, [text |-> <<>>], [text |-> IngestText]}
        metadatas == {none} \cup {[metadata |-> m] : m \in CallerMetadata}
        sizes == {none, [chunkSize |-> JNumber(0)], [chunkSize |-> JNumber(2)],
                  [chunkSize |-> JString]}
        overlaps == {none, [chunkOverlap |-> JNumber(1)]}
    IN  {t @@ m @@ sz @@ ov : t \in texts, m \in metadatas, sz \in sizes, ov \in overlaps}

\* the fields of a form: a field left out is the empty string
Files ==
    {[name |-> "f.txt", content |-> <<>>], [name |-> "f.txt", content |-> IngestText]}

Forms ==
    LET none == [key \in {} |-> ""]
        fields == [source : {"", "S"},
                   chunkSize : {<<>>, <<"2">>, <<"0">>, <<"X">>},
                   chunkOverlap : {<<>>, <<"1">>}]
    IN  {f @@ fl : f \in fields, fl \in {none} \cup {[file |-> x] : x \in Files}}

IngestRequests ==
    {[contentType |-> "json", body |-> b] : b \in JsonBodies}
        \cup {[contentType |-> "multipart", form |-> f] : f \in Forms}

\* TextBody.parse / Body.parse does not throw
TextBodyValid(b) ==
    /\ "text" \in DOMAIN b /\ Len(b.text) >= 1
    /\ "chunkSize" \in DOMAIN b => (b.chunkSize.type = "number" /\ b.chunkSize.n > 0)
    /\ "chunkOverlap" \in DOMAIN b =>
           (b.chunkOverlap.type = "number" /\ b.chunkOverlap.n >= 0)

\* TextBody.parse(b) for a valid b: the defaults applied
TextBodyParse(b) ==
    [text |-> b.text,
     chunkSize |-> IF "chunkSize" \in DOMAIN b THEN Number(b.chunkSize.n)
                   ELSE Number(DefaultChunkSize),
     chunkOverlap |-> IF "chunkOverlap" \in DOMAIN b THEN Number(b.chunkOverlap.n)
                      ELSE Number(DefaultChunkOverlap)]
        @@ (IF "metadata" \in DOMAIN b THEN [metadata |-> b.metadata]
            ELSE [key \in {} |-> ""])

\* new RecursiveCharacterTextSplitter({ chunkSize, chunkOverlap }) throws
SplitterThrows(chunkSize, chunkOverlap) == NumGeq(chunkOverlap, chunkSize)

\* splitter.splitText(text)
SplitText(text, chunkSize, chunkOverlap) ==
    IF text = <<>> THEN <<>>
    ELSE IF chunkSize.nan THEN [i \in 1..Len(text) |-> <<text[i]>>]
    ELSE LET size == chunkSize.n
             step == IF chunkOverlap.nan THEN size ELSE size - chunkOverlap.n
             count == IF Len(text) <= size THEN 1
                      ELSE 1 + ((Len(text) - size + step - 1) \div step)
         IN  [i \in 1..count |->
                 SubSeq(text, (i - 1) * step + 1, Min(Len(text), (i - 1) * step + size))]

\* part_002, lines 77-82: { ...metadata, chunk: i, chunkCount: chunks.length, processedAt }
ChunkMetadata(metadata, i, total) ==
    [chunk |-> i, chunkCount |-> total, processedAt |-> Now] @@ metadata

\* ingest/route.ts, line 28: { ...metadata, chunk: i }
ChunkMetadataIngest(metadata, i) == [chunk |-> i] @@ metadata

\* what the handler has made of a request before it splits the text: it threw,
\* or it has text, metadata, chunkSize and chunkOverlap
Threw400(message) == [threw |-> TRUE, error |-> message]

\* part_002, lines 26-55: the file form
FromForm(f) ==
    IF "file" \notin DOMAIN f THEN Threw400("No file provided")
    ELSE [threw |-> FALSE,
          text |-> f.file.content,
          metadata |-> [source |-> IF f.source # "" THEN f.source ELSE f.file.name,
                        description |-> "",
                        filename |-> f.file.name,
                        fileSize |-> Len(f.file.content),
                        fileType |-> "text/plain",
                        uploadedAt |-> Now,
                        chunk |-> 0],
          chunkSize |-> IF f.chunkSize # <<>> THEN ParseInt(f.chunkSize)
                        ELSE Number(DefaultChunkSize),
          chunkOverlap |-> IF f.chunkOverlap # <<>> THEN ParseInt(f.chunkOverlap)
                           ELSE Number(DefaultChunkOverlap)]

\* part_002, lines 56-65: the JSON text body
FromTextBody(b) ==
    IF ~TextBodyValid(b) THEN Threw400("ZodError")
    ELSE LET p == TextBodyParse(b)
         IN  [threw |-> FALSE,
              text |-> p.text,
              metadata |-> [chunk |-> 0]
                  @@ (IF "metadata" \in DOMAIN p THEN p.metadata ELSE [key \in {} |-> ""]),
              chunkSize |-> IF Truthy(p.chunkSize) THEN p.chunkSize
                            ELSE Number(DefaultChunkSize),
              chunkOverlap |-> IF Truthy(p.chunkOverlap) THEN p.chunkOverlap
                               ELSE Number(DefaultChunkOverlap)]

\* ingest/route.ts, lines 18-20
FromBody(b) ==
    IF ~TextBodyValid(b) THEN Threw400("ZodError")
    ELSE LET p == TextBodyParse(b)
         IN  [threw |-> FALSE,
              text |-> p.text,
              metadata |-> IF "metadata" \in DOMAIN p THEN p.metadata
                           ELSE [key \in {} |-> ""],
              chunkSize |-> p.chunkSize,
              chunkOverlap |-> p.chunkOverlap]

\* the handler's reading of the request inReq on the route inRoute
Prepared ==
    IF inRoute = "ingest" THEN FromBody(inReq.body)
    ELSE IF inReq.contentType = "multipart" THEN FromForm(inReq.form)
    ELSE FromTextBody(inReq.body)

\* chunks.map((c, i) => new Document(...)) of the two routes
BuildDocs(route, chunks, metadata) ==
    [i \in 1..Len(chunks) |->
        [pageContent |-> chunks[i],
         metadata |-> IF route = "ingest" THEN ChunkMetadataIngest(metadata, i - 1)
                      ELSE ChunkMetadata(metadata, i - 1, Len(chunks))]]

\* the catch block: status 400 with the message of the error
IngestFailure(message) == [ok |-> FALSE, status |-> 400, error |-> message]

\* part_002, lines 88-97, and ingest/route.ts, lines 33-36
IngestSuccess(route, built, metadata) ==
    IF route = "ingest" THEN [ok |-> TRUE, status |-> 200, inserted |-> Len(built)]
    ELSE [ok |-> TRUE, status |-> 200, inserted |-> Len(built), chunks |-> Len(built)]
             @@ (IF "source" \in DOMAIN metadata THEN [source |-> metadata.source]
                 ELSE [key \in {} |-> ""])

InitIngestAt(requests) ==
    /\ store = <<>>
    /\ body = [question |-> "q"]
    /\ pc = "idle"
    /\ HandlerIdle
    /\ ScorerIdle
    /\ ParserIdle
    /\ inPc = "start"
    /\ inRoute \in {"upload", "ingest"}
    /\ inReq \in requests
    /\ inRoute = "ingest" => inReq.contentType = "json"
    /\ inDocs = <<>>
    /\ inWrites = <<>>
    /\ inResponse = NoResponse
    /\ inServed = <<>>
    /\ table = <<>>

InitIngest == InitIngestAt(IngestRequests)

\* from the start of the handler to its first call of the store: the request
\* is read, the text is split and the documents are built
IngestPrepare ==
    /\ inPc = "start"
    /\ LET p == Prepared
       IN  IF p.threw
           THEN /\ inPc' = "failed"
                /\ inResponse' = IngestFailure(p.error)
                /\ UNCHANGED inDocs
           ELSE IF SplitterThrows(p.chunkSize, p.chunkOverlap)
           THEN /\ inPc' = "failed"
                /\ inResponse' = IngestFailure("Cannot have chunkOverlap >= chunkSize")
                /\ UNCHANGED inDocs
           ELSE /\ inDocs' = BuildDocs(inRoute,
                                       SplitText(p.text, p.chunkSize, p.chunkOverlap),
                                       p.metadata)
                /\ inPc' = "write"
                /\ UNCHANGED inResponse
    /\ UNCHANGED <<inRoute, inReq, inWrites, inServed, table>>
    /\ UNCHANGED <<handlerVars, scorerVars, parserVars>>

\* faulty variant: a document equal to one of the table is not written again
IngestWrite_SkipsKnown ==
    /\ inPc = "write"
    /\ inWrites' = Append(inWrites, inDocs)
    /\ \/ /\ table' = table \o SelectSeq(inDocs,
                                           LAMBDA d : \A i \in 1..Len(table) : table[i] # d)
          /\ inPc' = "done"
          /\ inResponse' = IngestSuccess(inRoute, inDocs, Prepared.metadata)
       \/ /\ \E m \in 0..Max(0, Len(inDocs) - 1) : table' = table \o SubSeq(inDocs, 1, m)
          /\ inPc' = "failed"
          /\ inResponse' = IngestFailure("store error")
    /\ UNCHANGED <<inRoute, inReq, inDocs, inServed>>
    /\ UNCHANGED <<handlerVars, scorerVars, parserVars>>

\* await vectorStore.addDocuments(docs): it returns with every document
\* written, or it throws with none or only some first of them written
IngestWrite ==
    /\ inPc = "write"
    /\ inWrites' = Append(inWrites, inDocs)
    /\ \/ /\ table' = table \o inDocs
          /\ inPc' = "done"
          /\ inResponse' = IngestSuccess(inRoute, inDocs, Prepared.metadata)
       \/ /\ \E m \in 0..Max(0, Len(inDocs) - 1) : table' = table \o SubSeq(inDocs, 1, m)
          /\ inPc' = "failed"
          /\ inResponse' = IngestFailure("store error")
    /\ UNCHANGED <<inRoute, inReq, inDocs, inServed>>
    /\ UNCHANGED <<handlerVars, scorerVars, parserVars>>

NextIngest ==
    \/ IngestPrepare
    \/ IngestWrite

SpecIngest == InitIngest /\ [][NextIngest]_vars

\* Ingestion requests served one after the other over one documents table: a
\* text in two chunks, a text with the caller's source, an empty text, and a
\* file with no source field.
SeqRequests ==
    {[contentType |-> "json",
      body |-> [text |-> IngestText, chunkSize |-> JNumber(2), chunkOverlap |-> JNumber(1)]],
     [contentType |-> "json", body |-> [text |-> IngestText, metadata |-> [source |-> "S"]]],
     [contentType |-> "json", body |-> [text |-> <<>>]],
     [contentType |-> "multipart",
      form |-> [source |-> "", chunkSize |-> <<>>, chunkOverlap |-> <<>>,
                file |-> [name |-> "f.txt", content |-> IngestText]]]}

InitIngestSeq == InitIngestAt(SeqRequests)

\* a route is called again once its handler has returned
NewIngest ==
    /\ inPc \in {"done", "failed"}
    /\ Len(inServed) + 1 < MaxIngests
    /\ inServed' = Append(inServed, [route |-> inRoute, req |-> inReq,
                                     response |-> inResponse])
    /\ inPc' = "start"
    /\ inRoute' \in {"upload", "ingest"}
    /\ inReq' \in SeqRequests
    /\ inRoute' = "ingest" => inReq'.contentType = "json"
    /\ inDocs' = <<>>
    /\ inWrites' = <<>>
    /\ inResponse' = NoResponse
    /\ UNCHANGED table
    /\ UNCHANGED <<handlerVars, scorerVars, parserVars>>

NextIngestSeq ==
    \/ NextIngest
    \/ NewIngest

SpecIngestSeq == InitIngestSeq /\ [][NextIngestSeq]_vars

(***************************************************************************)
(* Properties of the Confidence Scorer.                                    *)
(***************************************************************************)
\* the document has no score, or a score of zero or less
NonPositive(d) == "similarityScore" \notin DOMAIN d \/ d.similarityScore.num <= 0

NoPositiveScore(d) == \A i \in 1..Len(d) : NonPositive(d[i])

\* C8 as claimed: the metrics, documentCount among them, are all 0 when docs is
\* empty or no document has a positive score.
C8_Original ==
    (scPc = "scored" /\ NoPositiveScore(scDocs)) =>
        scMetrics = [avgSimilarity |-> Zero, maxSimilarity |-> Zero,
                     minSimilarity |-> Zero, scoreVariance |-> Zero,
                     documentCount |-> 0, overallConfidence |-> Zero]

\* C8 amended: when docs is empty or no document has a positive score,
\* avgSimilarity, maxSimilarity, minSimilarity, scoreVariance and
\* overallConfidence are 0 and documentCount is the number of documents given.
C8_ZeroMetrics ==
    (scPc = "scored" /\ NoPositiveScore(scDocs)) =>
        scMetrics = [avgSimilarity |-> Zero, maxSimilarity |-> Zero,
                     minSimilarity |-> Zero, scoreVariance |-> Zero,
                     documentCount |-> Len(scDocs), overallConfidence |-> Zero]

\* documents with a negative score and with no score, none positive, were scored
C8_Witness ==
    /\ scPc = "scored"
    /\ NoPositiveScore(scDocs)
    /\ \E i \in 1..Len(scDocs) : "similarityScore" \notin DOMAIN scDocs[i]
    /\ \E i \in 1..Len(scDocs) :
           "similarityScore" \in DOMAIN scDocs[i] /\ scDocs[i].similarityScore.num < 0

\* C9: overallConfidence lies in [0, 1] whatever the documents and their scores.
C9_OverallInUnitInterval ==
    scPc = "scored" =>
        /\ RLeq(Zero, scMetrics.overallConfidence)
        /\ RLeq(scMetrics.overallConfidence, One)

\* scores far apart (a variance above 0.1) among them a non-positive and a
\* missing one were scored
C9_Witness ==
    /\ scPc = "scored"
    /\ RLess(Rat(1, 10), scMetrics.scoreVariance)
    /\ \E i \in 1..Len(scDocs) : NonPositive(scDocs[i])
    /\ RLess(Zero, scMetrics.overallConfidence)

\* C10 as claimed: raising one score never lowers avgSimilarity.
C10_Original ==
    scRaise.at # 0 =>
        RLeq(scRaise.before.avgSimilarity, scMetrics.avgSimilarity)

\* C10 amended: raising one score that was positive before, or is still zero or
\* less after, never lowers avgSimilarity.
C10_RaisePositiveKeepsAvg ==
    (/\ scRaise.at # 0
     /\ \/ RLess(Zero, scRaise.from)
        \/ RLeq(scDocs[scRaise.at].similarityScore, Zero))
        => RLeq(scRaise.before.avgSimilarity, scMetrics.avgSimilarity)

\* a positive score among others was raised and avgSimilarity went up
C10_Witness ==
    /\ scRaise.at # 0
    /\ Len(scDocs) >= 2
    /\ RLess(Zero, scRaise.from)
    /\ RLess(scRaise.before.avgSimilarity, scMetrics.avgSimilarity)

\* The reference definition of the metrics, written over the set of the
\* positions of the documents with a positive score.
PositiveAt(d) ==
    {i \in 1..Len(d) : "similarityScore" \in DOMAIN d[i] /\ d[i].similarityScore.num > 0}

\* the sum of f[i] over the positions i of I
RECURSIVE SumOver(_, _)
SumOver(f, I) ==
    IF I = {} THEN Zero
    ELSE LET i == CHOOSE j \in I : TRUE IN RAdd(f[i], SumOver(f, I \ {i}))

\* mean, extrema and population variance (the mean of the squares less the
\* square of the mean) of the positive scores, and the weighted sum with
\* `count` as the document count
ReferenceMetrics(d, count) ==
    LET I == PositiveAt(d)
        n == Rat(Cardinality(I), 1)
        score == [i \in 1..Len(d) |-> IF i \in I THEN d[i].similarityScore ELSE Zero]
        square == [i \in 1..Len(d) |-> RMul(score[i], score[i])]
        mean == RDiv(SumOver(score, I), n)
        variance == RSub(RDiv(SumOver(square, I), n), RMul(mean, mean))
        byAvg == IF RLeq(RDiv(mean, Rat(8, 10)), One) THEN RDiv(mean, Rat(8, 10)) ELSE One
        spread == RSub(One, RMul(Rat(10, 1), variance))
        bySpread == IF RLeq(Zero, spread) THEN spread ELSE Zero
        byCount == IF count >= 3 THEN One ELSE Rat(count, 3)
        weighted == RAdd(RMul(Rat(1, 2), byAvg),
                         RAdd(RMul(Rat(3, 10), bySpread), RMul(Rat(1, 5), byCount)))
    IN  [avgSimilarity |-> mean,
         maxSimilarity |-> score[CHOOSE i \in I : \A j \in I : RLeq(score[j], score[i])],
         minSimilarity |-> score[CHOOSE i \in I : \A j \in I : RLeq(score[i], score[j])],
         scoreVariance |-> variance,
         overallConfidence |-> IF RLeq(weighted, One) THEN weighted ELSE One]

\* the five statistics of the scorer's output, without documentCount
Statistics(m) ==
    [avgSimilarity |-> m.avgSimilarity, maxSimilarity |-> m.maxSimilarity,
     minSimilarity |-> m.minSimilarity, scoreVariance |-> m.scoreVariance,
     overallConfidence |-> m.overallConfidence]

\* C11 as claimed: with at least one positive score the output equals the
\* reference definition where the document count of the weighted sum is the
\* number of documents with a positive score.
C11_Original ==
    (scPc = "scored" /\ PositiveAt(scDocs) # {}) =>
        Statistics(scMetrics) = ReferenceMetrics(scDocs, Cardinality(PositiveAt(scDocs)))

\* C11 amended: with at least one positive score, avgSimilarity, maxSimilarity,
\* minSimilarity and scoreVariance are the mean, extrema and population variance
\* of the positive scores only, and overallConfidence is
\* min(1, 0.5*min(avg/0.8,1) + 0.3*max(0,1-variance*10) + 0.2*min(documentCount/3,1))
\* where documentCount is the number of all documents given, whatever their score.
C11_MatchesReference ==
    (scPc = "scored" /\ PositiveAt(scDocs) # {}) =>
        /\ Statistics(scMetrics) = ReferenceMetrics(scDocs, Len(scDocs))
        /\ scMetrics.documentCount = Len(scDocs)

\* two different positive scores, one of them above 0.8, and a document with
\* no positive score were scored
C11_Witness ==
    /\ scPc = "scored"
    /\ Cardinality(PositiveAt(scDocs)) = 2
    /\ Len(scDocs) = 3
    /\ RLess(Zero, scMetrics.scoreVariance)
    /\ RLess(Rat(8, 10), scMetrics.maxSimilarity)
    /\ RLess(scMetrics.minSimilarity, scMetrics.avgSimilarity)

(***************************************************************************)
(* Properties of the Response Parser.                                      *)
(***************************************************************************)
\* C12 as claimed: for all one-line, label-free X and Y and every integer c,
\* the three lines "ANSWER: X", "CONFIDENCE: c", "REASONING: Y" are parsed to
\* exactly answer X, confidence c and reasoning Y.
C12_Original ==
    psPc = "parsed" =>
        \A X \in Fields, c \in ConfidenceValues, Y \in Fields :
            psText = StructuredText(X, c, Y) =>
                psResult = [answer |-> X, confidence |-> c, reasoning |-> Y]

\* the label at position i of t is the first symbol of its line
LabelStartsLine(t, i) == t[i] \in Labels /\ (i = 1 \/ t[i - 1] = "\n")

\* the label at position i of t has only spaces before it on its line
LabelLeadsLine(t, i) ==
    /\ t[i] \in Labels
    /\ \A j \in 1..(i - 1) : t[j] \in Whitespace \/ \E m \in (j + 1)..(i - 1) : t[m] = "\n"

\* t without the spaces and newlines at its two ends
Stripped(t) ==
    LET inner == {i \in 1..Len(t) : t[i] \notin Whitespace}
    IN  IF inner = {} THEN <<>>
        ELSE SubSeq(t, CHOOSE i \in inner : \A j \in inner : i <= j,
                       CHOOSE i \in inner : \A j \in inner : j <= i)

Fallback(t) == [answer |-> Stripped(t), confidence |-> 5, reasoning |-> DefaultReasoning]

\* C13 as claimed: when no line of the text starts with a label, the parser
\* returns the whole trimmed text as the answer, confidence 5 and the
\* placeholder reasoning.
C13_Original ==
    (psPc = "parsed" /\ \A i \in 1..Len(psText) : ~LabelStartsLine(psText, i)) =>
        psResult = Fallback(psText)

\* C13 amended: when no line of the text, its leading spaces left aside,
\* starts with a label, the parser returns the whole trimmed text as the
\* answer, confidence 5 and the placeholder reasoning.
C13_FallbackKeepsText ==
    (psPc = "parsed" /\ \A i \in 1..Len(psText) : ~LabelLeadsLine(psText, i)) =>
        psResult = Fallback(psText)

\* a text of two lines with a label inside a line, none leading one, was parsed
C13_Witness ==
    /\ psPc = "parsed"
    /\ \A i \in 1..Len(psText) : ~LabelLeadsLine(psText, i)
    /\ \E i \in 1..Len(psText) : psText[i] \in Labels
    /\ \E i \in 1..Len(psText) : psText[i] = "\n"
    /\ psResult.answer = psText

\* C14 as claimed: the confidence the parser returns is an integer of 0..10,
\* whatever the text, a confidence line with a number above 10 or below 0
\* included.
C14_Original ==
    psPc = "parsed" => psResult.confidence \in 0..10

(***************************************************************************)
(* Properties of the Federated Retriever and of Source Discovery.          *)
(***************************************************************************)
\* retrieval is over: the documents have been scored and handed to the chain
AfterRetrieval == pc \in {"generate", "log", "done"}

\* the request went the federated way (no filter, or an empty one)
FederatedMode == discovery # "none"

\* the request carries a non-empty filter
UserFiltered == "filter" \in DOMAIN req /\ DOMAIN req.filter # {}

SourceCalls == SelectSeq(calls, LAMBDA c : "source" \in DOMAIN c.filter)
BroadCalls == SelectSeq(calls, LAMBDA c : "metadata" \in DOMAIN c.filter)

\* result holds min(n, |pool|) distinct documents of the pool, in non-increasing
\* order of score, and no document of the pool left out beats one of them
IsTopKOf(result, pool, n) ==
    /\ Len(result) = Min(n, Len(pool))
    /\ \A i \in 1..Len(result) : \E j \in 1..Len(pool) : result[i] = pool[j]
    /\ \A i, j \in 1..Len(result) : i # j => result[i] # result[j]
    /\ \A i \in 1..(Len(result) - 1) :
           ~RLess(result[i].similarityScore, result[i + 1].similarityScore)
    /\ \A j \in 1..Len(pool) :
           (\A i \in 1..Len(result) : result[i] # pool[j])
               => \A i \in 1..Len(result) :
                      ~RLess(result[i].similarityScore, pool[j].similarityScore)

\* C1: in every mode the retrieved documents, as scored and as returned to the
\* caller, are at most k.
C1_AtMostK ==
    /\ AfterRetrieval =>
           /\ Len(docs) <= req.k
           /\ confidenceMetrics.documentCount <= req.k
    /\ pc = "done" =>
           /\ response.docsFound <= req.k
           /\ Len(response.sources) <= req.k

\* a federated request whose pool held more than k documents was answered
C1_Witness ==
    /\ pc = "done"
    /\ FederatedMode
    /\ Len(allDocs) > req.k
    /\ Len(docs) = req.k

\* C2 as claimed: in federated mode the documents returned are the pool sorted by
\* non-increasing score and cut to k.
C2_Original ==
    (AfterRetrieval /\ FederatedMode) => IsTopKOf(docs, allDocs, req.k)

\* C2 amended: in federated mode with a non-empty pool the documents returned are
\* the pool sorted by non-increasing score and cut to k (with an empty pool they
\* are what the broad search returned).
C2_SortedTopKOfPool ==
    (AfterRetrieval /\ FederatedMode /\ Len(allDocs) > 0)
        => IsTopKOf(docs, allDocs, req.k)

\* a pool that was not in order and held more than k documents was sorted and cut
C2_Witness ==
    /\ AfterRetrieval
    /\ FederatedMode
    /\ Len(allDocs) > req.k
    /\ \E i \in 1..(Len(allDocs) - 1) :
           RLess(allDocs[i].similarityScore, allDocs[i + 1].similarityScore)

\* the rows of the store as retrieved documents of their sources
StoreDocs ==
    [i \in 1..Len(store) |->
        [id |-> store[i].id, metadata |-> store[i].metadata,
         similarityScore |-> store[i].score, source |-> store[i].metadata.source]]

\* discovery returned the sources of the store and the search of every one of
\* them returned (every discovered source has a row, so the pool has one of it)
EverySourceReturned ==
    /\ discovery = "ok"
    /\ si = Len(sources)
    /\ \A i \in 1..Len(sources) : \E j \in 1..Len(allDocs) : allDocs[j].source = sources[i]

C4_SourceFailureSkipped ==
    /\ [](FederatedMode =>
            /\ Len(SourceCalls) = si
            /\ \A i \in 1..si : SourceCalls[i].filter = [source |-> sources[i]]
            /\ (pc # "source") => si = Len(sources)
            /\ failedAt # "source")
    /\ [][pc = "source" =>
            /\ si' = si + 1
            /\ lastSearch'.outcome = "threw" => allDocs' = allDocs
            /\ lastSearch'.outcome = "returned" =>
                   /\ Len(allDocs') = Len(allDocs) + Len(lastSearch'.result)
                   /\ SubSeq(allDocs', 1, Len(allDocs)) = allDocs
                   /\ \A i \in 1..Len(lastSearch'.result) :
                          /\ allDocs'[Len(allDocs) + i].id = lastSearch'.result[i].doc.id
                          /\ allDocs'[Len(allDocs) + i].similarityScore =
                                 lastSearch'.result[i].score]_vars

\* the search of the first of two discovered sources threw (its rows are not in
\* the pool), the second was searched all the same and its rows are in the pool
C4_Witness ==
    /\ pc = "generate"
    /\ discovery = "ok"
    /\ Len(sources) = 2
    /\ si = 2
    /\ Len(allDocs) > 0
    /\ \A i \in 1..Len(allDocs) : allDocs[i].source = sources[2]

\* C5: the broad search is issued exactly when the pool is empty after the loop,
\* once, with limit k; when it throws or returns nothing the retrieved documents
\* are empty and the request goes on to scoring and generation.
C5_BroadFallback ==
    /\ Len(BroadCalls) <= 1
    /\ \A i \in 1..Len(BroadCalls) : BroadCalls[i].k = req.k
    /\ Len(BroadCalls) = 1 =>
           (FederatedMode /\ si = Len(sources) /\ Len(allDocs) = 0)
    /\ (FederatedMode /\ AfterRetrieval /\ Len(allDocs) = 0) => Len(BroadCalls) = 1
    /\ (FederatedMode /\ AfterRetrieval /\ Len(allDocs) = 0
            /\ (lastSearch.outcome = "threw" \/ lastSearch.result = <<>>))
           => (docs = <<>> /\ confidenceMetrics = calculateConfidenceMetrics(<<>>))
    /\ failedAt # "broad"

\* the broad search threw and the request was answered with no documents
C5_Witness ==
    /\ pc = "done"
    /\ Len(BroadCalls) = 1
    /\ lastSearch.outcome = "threw"
    /\ response.docsFound = 0

\* C6: with a non-empty filter the store is called once, with the caller's filter
\* and k; discovery is not run, no other search is issued, and the documents are
\* the store's result in the store's order.
C6_FilteredMode ==
    UserFiltered =>
        /\ discovery = "none"
        /\ sources = <<>>
        /\ pc = "filtered" => calls = <<>>
        /\ pc # "filtered" => calls = <<[k |-> req.k, filter |-> req.filter]>>
        /\ AfterRetrieval =>
               /\ Len(docs) = Len(lastSearch.result)
               /\ \A i \in 1..Len(docs) :
                      /\ docs[i].id = lastSearch.result[i].doc.id
                      /\ docs[i].similarityScore = lastSearch.result[i].score

\* a filtered request was answered with two or more documents
C6_Witness ==
    /\ pc = "done"
    /\ UserFiltered
    /\ Len(docs) >= 2

\* C7: when the discovery query returns an error or throws, the sources are the
\* fallback sources and the request does not fail at discovery.
C7_DiscoveryFailsSoft ==
    /\ discovery \in {"error", "throw"} => sources = FallbackSources
    /\ failedAt # "discover"

\* the discovery query threw over a store that has sources, and the request was
\* answered
C7_Witness ==
    /\ pc = "done"
    /\ discovery = "throw"
    /\ \E i \in 1..Len(store) : store[i].metadata.source = "A"

(***************************************************************************)
(* Properties of the Answer Orchestrator.                                  *)
(***************************************************************************)
Terminated == pc \in {"done", "failed"}

Succeeded == "ok" \in DOMAIN response /\ response.ok

\* every store call of the retrieval has been issued and has ended
RetrievalComplete ==
    /\ lastSearch.outcome # "none"
    /\ IF UserFiltered
       THEN Len(calls) = 1 /\ lastSearch.outcome = "returned"
       ELSE /\ discovery # "none"
            /\ Len(SourceCalls) = Len(sources)
            /\ allDocs = <<>> => Len(BroadCalls) = 1

\* C15: within one request the language model is called only after the
\* retrieval is complete and its documents are scored, the log row is written
\* only after the model was called and its output parsed, a success response
\* exists only with the log row written, and no step follows a failure.
C15_FixedOrder ==
    /\ [][llmCalls' # llmCalls =>
            /\ RetrievalComplete
            /\ confidenceMetrics = calculateConfidenceMetrics(docs)
            /\ parsed = NoParsed /\ queryLog = <<>> /\ response = NoResponse]_vars
    /\ [][queryLog' # queryLog =>
            /\ llmCalls = 1 /\ parsed # NoParsed
            /\ queryLog' = <<[question |-> req.question, answer |-> parsed.answer]>>]_vars
    /\ [](Succeeded =>
            /\ queryLog = <<[question |-> req.question, answer |-> response.answer]>>
            /\ response.answer = parsed.answer)
    /\ [][pc # "failed"]_vars

\* a request with retrieved documents went through every step to its success
\* response
C15_Witness ==
    /\ pc = "done"
    /\ Succeeded
    /\ docs # <<>>
    /\ llmCalls = 1
    /\ Len(queryLog) = 1

RetrievalPositions == {"filtered", "discover", "source", "broad"}

\* C16 as claimed: whatever the store calls do, a valid request goes from the
\* retrieval on to scoring and generation and never fails there.
C16_Original == failedAt \notin RetrievalPositions

\* C16 amended: without a filter the retrieval always goes on to scoring and
\* generation, whatever the discovery query and the store calls do; with a
\* filter it goes on when the one store call returns, an empty result included,
\* and the request fails when that call throws.
C16_RetrievalProceeds ==
    /\ [](failedAt \in RetrievalPositions =>
            failedAt = "filtered" /\ UserFiltered /\ lastSearch = Threw)
    /\ [][(pc = "filtered" /\ lastSearch'.outcome = "returned") =>
            (pc' = "generate" /\ docs' = WithScores(lastSearch'.result))]_vars
    /\ [][pc = "discover" => pc' = "source"]_vars
    /\ [][pc = "source" => (si' = si + 1 /\ pc' \in {"source", "broad", "generate"})]_vars
    /\ [][pc = "broad" => pc' = "generate"]_vars

\* without a filter, the discovery query threw, the last source search and the
\* broad search threw, and the request is at the generation with no document
C16_Witness ==
    /\ pc = "generate"
    /\ ~UserFiltered
    /\ discovery = "throw"
    /\ lastSearch = Threw
    /\ Len(BroadCalls) = 1
    /\ docs = <<>>

\* C17: the model is called at most once for a request, and when its call
\* fails the request has failed with no parser result, no log row and the
\* failure response, which has no answer.
C17_GenerationFailureIsFatal ==
    /\ llmCalls <= 1
    /\ failedAt = "generate" =>
          /\ pc = "failed"
          /\ llmCalls = 1
          /\ parsed = NoParsed
          /\ queryLog = <<>>
          /\ response.ok = FALSE
          /\ "answer" \notin DOMAIN response

\* documents were retrieved and the call of the model failed
C17_Witness ==
    /\ pc = "failed"
    /\ failedAt = "generate"
    /\ docs # <<>>

\* C18 as claimed: once the answer is generated and parsed the caller gets it
\* as a success, whether or not the log row could be written.
C18_Original ==
    (Terminated /\ parsed # NoParsed) =>
        (Succeeded /\ response.answer = parsed.answer)

\* the response is a success payload with an answer and no error message, or
\* a failure with an error message and no answer
ExactlyOneOutcome ==
    /\ "ok" \in DOMAIN response
    /\ IF response.ok
       THEN /\ response.status = 200
            /\ "answer" \in DOMAIN response
            /\ "error" \notin DOMAIN response
       ELSE /\ response.status = 500
            /\ "error" \in DOMAIN response
            /\ "answer" \notin DOMAIN response

\* some step of the handler can be taken: it is at an awaited call
CanStep ==
    \/ pc \in {"start", "filtered", "discover", "broad", "generate", "log"}
    \/ pc = "source" /\ si < Len(sources)

\* an upper bound of the number of steps the handler has still to take
Rank ==
    LET maxSources == Len(FallbackSources) + Len(store)
    IN  CASE pc = "start" -> maxSources + 6
          [] pc = "discover" -> maxSources + 5
          [] pc = "source" -> 4 + Len(sources) - si
          [] pc \in {"filtered", "broad"} -> 3
          [] pc = "generate" -> 2
          [] pc = "log" -> 1
          [] pc \in {"done", "failed"} -> 0

\* C19: each awaited call returning or throwing is one step, and every step,
\* whatever fails, brings the request closer to its end (the number of steps
\* left, never negative, goes down); a request short of its end has a step to
\* take and no response yet, and at its end it has exactly one of the success
\* payload and the structured failure.
C19_EndsInOneOutcome ==
    /\ [][Rank' < Rank]_vars
    /\ [](Rank >= 0)
    /\ [](~Terminated => (CanStep /\ response = NoResponse))
    /\ [](Terminated => ExactlyOneOutcome)

\* a request whose discovery query and last store call threw came to its end
\* with the success payload
C19_Witness ==
    /\ pc = "done"
    /\ discovery = "throw"
    /\ lastSearch = Threw
    /\ ExactlyOneOutcome
    /\ response.ok

(***************************************************************************)
(* Properties of the query log.                                            *)
(***************************************************************************)
\* the requests that have returned, the current one included, in order
Served ==
    IF pc \in {"done", "failed"}
    THEN Append(returned, [body |-> body, response |-> response])
    ELSE returned

\* those of them that returned a success answer
Answered == SelectSeq(Served, LAMBDA r : r.response.ok)

\* C20: after any sequence of requests the query log has one row for each
\* request that returned a success answer, in their order, with that
\* request's question and answer, and none for a failed request; a step adds
\* at most one row at the end of the log and never changes or removes a row.
C20_OneEntryPerAnswer ==
    /\ [](/\ Len(queryLog) = Len(Answered)
          /\ \A i \in 1..Len(queryLog) :
                queryLog[i] = [question |-> Answered[i].body.question,
                               answer |-> Answered[i].response.answer])
    /\ [][/\ Len(queryLog') \in {Len(queryLog), Len(queryLog) + 1}
          /\ SubSeq(queryLog', 1, Len(queryLog)) = queryLog]_vars
    /\ [][pc' = "failed" => queryLog' = queryLog]_vars

\* three requests were served: one failed and two were answered, with
\* different questions and different answers
C20_Witness ==
    /\ Len(Served) = 3
    /\ Len(queryLog) = 2
    /\ queryLog[1].question # queryLog[2].question
    /\ queryLog[1].answer # queryLog[2].answer
    /\ \E i \in 1..3 : ~Served[i].response.ok

(***************************************************************************)
(* Properties of the ingestion.                                            *)
(***************************************************************************)
\* the metadata the caller sent with the request
CallerBase ==
    IF inReq.contentType = "json"
    THEN IF "metadata" \in DOMAIN inReq.body THEN inReq.body.metadata
         ELSE [key \in {} |-> ""]
    ELSE IF inReq.form.source # "" THEN [source |-> inReq.form.source]
         ELSE [key \in {} |-> ""]

\* C21 as claimed: a successful ingestion of n chunks has written n documents
\* whose metadata.chunk is 0..n-1 in order, each with metadata.chunkCount = n
\* and with the caller's metadata, whose chunk and chunkCount never win.
C21_Original ==
    inPc = "done" =>
        /\ Len(table) = Len(inDocs)
        /\ \A i \in 1..Len(table) :
              /\ table[i].metadata.chunk = i - 1
              /\ "chunkCount" \in DOMAIN table[i].metadata
              /\ table[i].metadata.chunkCount = Len(table)
              /\ \A key \in DOMAIN CallerBase \ {"chunk", "chunkCount"} :
                    table[i].metadata[key] = CallerBase[key]

\* C22: a successful ingestion has issued one batch write, of all its
\* documents; that write adds the documents at the end of the table, as many
\* as there are chunks and as the response reports as inserted, whatever the
\* table holds already; no step removes or changes a row of the table.
C22_GrowsByChunkCount ==
    /\ [][inPc' = "done" =>
            /\ inWrites' = <<inDocs>>
            /\ table' = table \o inDocs
            /\ Len(table') = Len(table) + Len(inDocs)
            /\ inResponse'.inserted = Len(inDocs)]_vars
    /\ [][/\ Len(table') >= Len(table)
          /\ SubSeq(table', 1, Len(table)) = table]_vars
    /\ [][Len(inWrites') > Len(inWrites) => inPc = "write" /\ inWrites = <<>>]_vars

\* the same text with the same metadata was ingested twice on the upload route,
\* in two chunks each time, and the table holds the four documents
C22_Witness ==
    /\ inPc = "done"
    /\ Len(inServed) = 1
    /\ inServed[1].response.ok
    /\ inServed[1].req = inReq
    /\ inServed[1].route = inRoute
    /\ inRoute = "upload"
    /\ Len(inDocs) = 2
    /\ Len(table) = 4
    /\ table[1] = table[3]

\* the request carries no raw input, or a chunk size that is not a positive
\* integer
PositiveDecimal(str) ==
    /\ str # <<>>
    /\ \A i \in 1..Len(str) : str[i] \in Digits
    /\ \E i \in 1..Len(str) : str[i] # "0"

InvalidIngest ==
    IF inReq.contentType = "json"
    THEN \/ "text" \notin DOMAIN inReq.body
         \/ inReq.body.text = <<>>
         \/ /\ "chunkSize" \in DOMAIN inReq.body
            /\ ~(inReq.body.chunkSize.type = "number" /\ inReq.body.chunkSize.n > 0)
    ELSE \/ "file" \notin DOMAIN inReq.form
         \/ inReq.form.file.content = <<>>
         \/ inReq.form.chunkSize # <<>> /\ ~PositiveDecimal(inReq.form.chunkSize)

\* C23 as claimed: an ingestion whose raw input is empty or missing, or whose
\* chunk size is not a positive integer, fails and writes nothing, for a JSON
\* text as for a file form.
C23_Original ==
    InvalidIngest =>
        /\ inPc \notin {"write", "done"}
        /\ inWrites = <<>>
        /\ table = <<>>
        /\ inPc = "failed" => ~inResponse.ok

\* every request served so far, the current one included, was successful
OnlySuccessfulIngests ==
    /\ \A i \in 1..Len(inServed) : inServed[i].response.ok
    /\ inPc = "done"

\* C24 as claimed: after any sequence of successful ingestions every document
\* of the table has a non-empty metadata.source.
C24_Original ==
    OnlySuccessfulIngests =>
        \A i \in 1..Len(table) :
            /\ "source" \in DOMAIN table[i].metadata
            /\ table[i].metadata.source # ""

(***************************************************************************)
(* Properties of the order and the number of the per-source searches.      *)
(***************************************************************************)
\* the orders in which the sources of s can be iterated
SourceOrders(s) ==
    {p \in [1..Len(s) -> {s[i] : i \in 1..Len(s)}] :
        \A i \in 1..Len(s) : \E j \in 1..Len(s) : p[j] = s[i]}

\* the pool of the loop over the first n sources of order, every search returning
RECURSIVE PoolOf(_, _)
PoolOf(order, n) ==
    IF n = 0 THEN <<>>
    ELSE PoolOf(order, n - 1)
             \o WithScoresFrom(
                    similaritySearchWithScore(DocsPerSource(req.k, Len(order)),
                                              [source |-> order[n]]),
                    order[n])

\* what federated retrieval returns when the sources are iterated in this order
FederatedResult(order) == TopK(PoolOf(order, Len(order)), req.k)

ScoresOf(d) == [i \in 1..Len(d) |-> d[i].similarityScore]

\* no two documents of the pool that come from different sources score the same
NoTieAcrossSources ==
    \A i, j \in 1..Len(allDocs) :
        allDocs[i].source # allDocs[j].source
            => allDocs[i].similarityScore # allDocs[j].similarityScore

\* C25 as claimed: for a fixed store and query every permutation of the source
\* iteration order yields the same returned sequence of documents.
C25_Original ==
    (AfterRetrieval /\ EverySourceReturned) =>
        \A order \in SourceOrders(sources) : FederatedResult(order) = docs

\* C25 amended: for a fixed store and query, every search returning, every
\* permutation of the source iteration order yields the same sequence of
\* similarity scores, and the same sequence of documents when no two pooled
\* documents of different sources have equal scores.
C25_SameUpToTies ==
    (AfterRetrieval /\ EverySourceReturned) =>
        /\ FederatedResult(sources) = docs
        /\ \A order \in SourceOrders(sources) :
              /\ ScoresOf(FederatedResult(order)) = ScoresOf(docs)
              /\ NoTieAcrossSources => FederatedResult(order) = docs

\* two sources were searched, their documents score differently, the pool was
\* cut, and the request was answered
C25_Witness ==
    /\ pc = "done"
    /\ EverySourceReturned
    /\ Len(sources) = 2
    /\ NoTieAcrossSources
    /\ Len(allDocs) = 2
    /\ Len(docs) = 1
    /\ docs[1].source = sources[2]

\* C26: in federated mode one search is issued per discovered source, in the
\* order of the sources, each filtered to that source alone and each asking for
\* max(1, floor(k / |S|)) documents, a count that is at least 1 and at most
\* max(1, k).
C26_OneSearchPerSource ==
    FederatedMode =>
        /\ Len(SourceCalls) = si
        /\ pc # "source" => Len(SourceCalls) = Len(sources)
        /\ \A i \in 1..Len(SourceCalls) :
              /\ SourceCalls[i].filter = [source |-> sources[i]]
              /\ SourceCalls[i].k = Max(1, req.k \div Len(sources))
              /\ SourceCalls[i].k >= 1
              /\ SourceCalls[i].k <= Max(1, req.k)

\* the three fallback sources were searched for a request with k = 2, each for
\* one document, and the request was answered
C26_Witness ==
    /\ pc = "done"
    /\ FederatedMode
    /\ req.k = 2
    /\ Len(sources) = 3
    /\ Len(SourceCalls) = 3
    /\ \A i \in 1..3 : SourceCalls[i].k = 1

\* the position of the source in the iteration, and of a document in the pool
SourceIndex(source) == CHOOSE i \in 1..Len(sources) : sources[i] = source
PoolIndex(d) == CHOOSE i \in 1..Len(allDocs) : allDocs[i] = d

\* C27: in federated mode the pool holds the documents in the order of their
\* discovery (source iteration order, and within a source the order in which
\* the store returned them), and two documents of equal score are returned in
\* their order in the pool.
C27_TiesKeepDiscoveryOrder ==
    /\ [](FederatedMode =>
            \A i, j \in 1..Len(allDocs) :
                i < j => SourceIndex(allDocs[i].source) <= SourceIndex(allDocs[j].source))
    /\ [][(pc = "source" /\ si' = si + 1 /\ lastSearch'.outcome = "returned")
            => allDocs' = allDocs \o WithScoresFrom(lastSearch'.result, sources[si + 1])]_vars
    /\ []((AfterRetrieval /\ FederatedMode /\ Len(allDocs) > 0) =>
            \A i, j \in 1..Len(docs) :
                (i < j /\ docs[i].similarityScore = docs[j].similarityScore)
                    => PoolIndex(docs[i]) < PoolIndex(docs[j]))

\* two documents of equal score, of two sources, were pooled and returned
C27_Witness ==
    /\ pc = "done"
    /\ FederatedMode
    /\ Len(allDocs) = 2
    /\ Len(docs) = 2
    /\ docs[1].similarityScore = docs[2].similarityScore
    /\ docs[1].source # docs[2].source

\* C29: the sources of federated retrieval are never none, never hold a source
\* twice nor a blank one; when the query succeeds and the store has no usable
\* source they are the fallback sources; the per-source count is at least 1 and
\* once the loop is over at least one per-source search was issued.
C29_SourcesUsable ==
    FederatedMode =>
        /\ Len(sources) >= 1
        /\ \A i, j \in 1..Len(sources) : i # j => sources[i] # sources[j]
        /\ \A i \in 1..Len(sources) : sources[i] # "" /\ sources[i] # " "
        /\ (discovery = "ok"
               /\ \A j \in 1..Len(store) : store[j].metadata.source \in {"", " "})
              => sources = FallbackSources
        /\ docsPerSource >= 1
        /\ pc # "source" => Len(SourceCalls) >= 1

\* the query succeeded on a store whose only rows have a blank source, the
\* fallback sources were searched and the request was answered
C29_Witness ==
    /\ pc = "done"
    /\ discovery = "ok"
    /\ Len(store) >= 1
    /\ \A j \in 1..Len(store) : store[j].metadata.source = " "
    /\ sources = FallbackSources
    /\ Len(SourceCalls) = 3

(***************************************************************************)
(* Properties of the sections of the Response Parser.                      *)
(***************************************************************************)
\* the label a trimmed line starts with, "" when it starts with none
LabelOf(line) == IF line # <<>> /\ line[1] \in Labels THEN line[1] ELSE ""

\* The texts of the three sections when a label line opens its section with
\* the rest of the line and every other non-empty line is appended, after a
\* single space, to the section that is open: sections[label] is the text of
\* the section of that label, open the label of the open section.
RECURSIVE SectionsOf(_, _, _)
SectionsOf(sections, open, lines) ==
    IF lines = <<>> THEN sections
    ELSE LET line == TrimText(lines[1])
             label == LabelOf(line)
         IN  IF label # ""
             THEN SectionsOf([sections EXCEPT ![label] = TrimText(Tail(line))],
                             label, Tail(lines))
             ELSE IF line # <<>> /\ open # ""
             THEN SectionsOf([sections EXCEPT ![open] =
                                 IF @ = <<>> THEN line ELSE @ \o <<" ">> \o line],
                             open, Tail(lines))
             ELSE SectionsOf(sections, open, Tail(lines))

\* what the parser returns when every section is built that way
AllSectionsContinued(t) ==
    LET sections == SectionsOf([label \in Labels |-> <<>>], "", SplitLines(t))
        fields == [answer |-> sections["ANSWER:"],
                   confidence |-> ParseIntOrZero(sections["CONFIDENCE:"]),
                   reasoning |-> sections["REASONING:"]]
    IN  IF fields.answer = <<>> /\ fields.confidence = 0 /\ fields.reasoning = <<>>
        THEN Fallback(t)
        ELSE fields

\* C28 as claimed: a label line switches the section, and every following
\* non-empty line without a label is appended, after a single space, to the
\* section that is active, for the answer, the confidence and the reasoning
\* alike: no such line is discarded.
C28_Original ==
    psPc = "parsed" => psResult = AllSectionsContinued(psText)

\* the fields as the loop over the lines leaves them
SectionContents(t) ==
    LET fields == ParseLines([answer |-> <<>>, confidence |-> 0, reasoning |-> <<>>,
                              currentSection |-> ""],
                             SplitLines(t))
    IN  [answer |-> fields.answer, confidence |-> fields.confidence,
         reasoning |-> fields.reasoning]

\* C30 as claimed: the fallback is applied only when no label was found; when
\* a line starts with a label the parser returns the contents of the sections,
\* an empty answer, a confidence of 0 and an empty reasoning included.
C30_Original ==
    (psPc = "parsed" /\ \E i \in 1..Len(psText) : LabelLeadsLine(psText, i)) =>
        /\ psResult = SectionContents(psText)
        /\ psResult.reasoning # DefaultReasoning

====
